---- MODULE Spec2Model ----
(***************************************************************************)
(* Field collection with @defer targets (collectFields, collectSubfields,  *)
(* collectFieldsImpl, buildGroupedFieldSets) and the NoFragmentCycles      *)
(* validation rule of graphql-js, as state machines.                       *)
(*                                                                         *)
(* A collection call is run one selection at a time: the variable `stack`  *)
(* holds the activation records of collectFieldsImpl (the selections each  *)
(* still has to visit, its parentTarget and its newTarget), and the four   *)
(* accumulators of the call's context are variables of their own.          *)
(* JavaScript Maps and Sets keep insertion order, so they are sequences:   *)
(* a Map is a sequence of [key, value] entries, a Set a sequence without   *)
(* repetition.  DeferUsage objects are compared by identity, so a target   *)
(* is the index of its object in `deferUsages`.                            *)
(***************************************************************************)
EXTENDS Integers, Sequences, FiniteSets, TLC

VARIABLES
  operation,            \* the OperationDefinition: [operation, selectionSet]
  fragments,            \* the fragments table: fragment name -> definition
  deferUsages,          \* every DeferUsage object allocated so far
  fieldsByTarget,       \* context.fieldsByTarget
  targetsByKey,         \* context.targetsByKey
  newDeferUsages,       \* context.newDeferUsages
  visitedFragmentNames, \* context.visitedFragmentNames
  stack,                \* activation records of collectFieldsImpl, top first
  call,                 \* the running call: collectFields or collectSubfields
  remaining,            \* collectSubfields: fieldGroup.fields not yet iterated
  pc,                   \* "collectFieldsImpl", "returned" or "threw"
  thrown,               \* the error a call ended with, "" if none
  result,               \* what the call returned
  definitions,          \* NoFragmentCyclesRule: the document's fragment definitions
  visited,              \* NoFragmentCyclesRule: definitions the visitor has entered
  visitedFrags,         \* NoFragmentCyclesRule: visitedFrags
  spreadPath,           \* NoFragmentCyclesRule: spreadPath
  spreadPathIndexByName,\* NoFragmentCyclesRule: spreadPathIndexByName
  errors,               \* NoFragmentCyclesRule: errors given to context.reportError
  explored              \* NoFragmentCyclesRule: fragments whose spreads were fetched

collectVars == <<operation, fragments, deferUsages, fieldsByTarget, targetsByKey,
                 newDeferUsages, visitedFragmentNames, stack, call, remaining,
                 pc, thrown, result>>
cycleVars == <<definitions, visited, visitedFrags, spreadPath,
               spreadPathIndexByName, errors, explored>>
vars == <<collectVars, cycleVars>>

----------------------------------------------------------------------------
(* Bounds of the model *)

\* Selections in the operation's root selection set.
MaxRootSelections == 2
\* Depth of the JavaScript call stack: one more nested collectFieldsImpl call
\* ends in a RangeError.
MaxCallStack == 6

----------------------------------------------------------------------------
(* JavaScript values *)

\* `undefined`: the non-deferred target, and an absent newTarget.
undefined == 0

SetHas(set, x) == \E i \in DOMAIN set : set[i] = x
SetAdd(set, x) == IF SetHas(set, x) THEN set ELSE Append(set, x)
Members(set) == {set[i] : i \in DOMAIN set}

RECURSIVE NewSet(_)
\* new Set(list): the list without its repetitions, in the order of first occurrence
NewSet(list) ==
  IF list = <<>> THEN <<>>
  ELSE LET init == NewSet(SubSeq(list, 1, Len(list) - 1))
       IN SetAdd(init, list[Len(list)])

MapHas(map, k) == \E i \in DOMAIN map : map[i].key = k
MapGet(map, k) == map[CHOOSE i \in DOMAIN map : map[i].key = k].value
MapSet(map, k, v) ==
  IF MapHas(map, k)
  THEN [i \in DOMAIN map |-> IF map[i].key = k THEN [key |-> k, value |-> v] ELSE map[i]]
  ELSE Append(map, [key |-> k, value |-> v])
MapDelete(map, k) == SelectSeq(map, LAMBDA e : e.key # k)
MapKeys(map) == [i \in DOMAIN map |-> map[i].key]

\* AccumulatorMap.add(key, item): append item to the list kept under key
AccumulatorMapAdd(map, k, item) ==
  MapSet(map, k, IF MapHas(map, k) THEN Append(MapGet(map, k), item) ELSE <<item>>)

\* isSameSet(setA, setB): the same size and every member of setA in setB
isSameSet(setA, setB) ==
  /\ Len(setA) = Len(setB)
  /\ \A i \in DOMAIN setA : SetHas(setB, setA[i])

\* getBySet(map, setToMatch): the entry whose key has the members of setToMatch;
\* here its position in the map, 0 when there is none
getBySet(map, setToMatch) ==
  IF \E i \in DOMAIN map : isSameSet(map[i].key, setToMatch)
  THEN CHOOSE i \in DOMAIN map : isSameSet(map[i].key, setToMatch)
  ELSE 0

----------------------------------------------------------------------------
(* The schema and the AST *)

\* The runtime type of the object the selection set is collected for.
runtimeType == "Obj"
\* isAbstractType(type): interfaces and unions
isAbstractType(type) == type \in {"Iface", "Union"}
\* schema.isSubType(abstractType, maybeSubType): Obj implements Iface only
isSubType(abstractType, maybeSubType) ==
  <<abstractType, maybeSubType>> \in {<<"Iface", "Obj">>, <<"Union", "Other">>}
\* typeFromAST(schema, typeNode): the named type, or "" for a name the schema lacks
typeFromAST(typeNode) ==
  IF typeNode \in {"Obj", "Other", "Iface", "Union"} THEN typeNode ELSE ""

\* A directive not on the node, and the label of a @defer that has none.
NoLabel == "<undefined>"
NoDirective == [present |-> FALSE, if |-> TRUE, label |-> NoLabel]
Directive(if, label) == [present |-> TRUE, if |-> if, label |-> label]
\* A type condition not on the node.
NoTypeCondition == "<none>"

\* getDirectiveValues(directiveDef, node, variableValues): the coerced arguments
\* of the directive on the node, `present` FALSE standing for undefined
getDirectiveValues(directiveName, node) ==
  CASE directiveName = "skip" -> node.skip
    [] directiveName = "include" -> node.include
    [] directiveName = "defer" -> node.defer

\* AST nodes, all of one shape.  `loc` is the node's place in the document: two
\* nodes are the same object only if they are at the same place.
FieldNode(name, alias, selectionSet) ==
  [kind |-> "Field", name |-> name, alias |-> alias, skip |-> NoDirective,
   include |-> NoDirective, defer |-> NoDirective,
   typeCondition |-> NoTypeCondition, selectionSet |-> selectionSet, loc |-> <<>>]
InlineFragmentNode(typeCondition, defer, selectionSet) ==
  [kind |-> "InlineFragment", name |-> "", alias |-> "", skip |-> NoDirective,
   include |-> NoDirective, defer |-> defer,
   typeCondition |-> typeCondition, selectionSet |-> selectionSet, loc |-> <<>>]
FragmentSpreadNode(name, defer) ==
  [kind |-> "FragmentSpread", name |-> name, alias |-> "", skip |-> NoDirective,
   include |-> NoDirective, defer |-> defer,
   typeCondition |-> NoTypeCondition, selectionSet |-> <<>>, loc |-> <<>>]
FragmentDefinitionNode(typeCondition, selectionSet) ==
  [typeCondition |-> typeCondition, selectionSet |-> selectionSet]

----------------------------------------------------------------------------
(* The helpers of collectFields *)

NON_DEFERRED_TARGET_SET == <<undefined>>

\* shouldIncludeNode: @skip(if: true) wins, then @include(if: false)
shouldIncludeNode(node) ==
  LET skip == getDirectiveValues("skip", node)
      include == getDirectiveValues("include", node)
  IN IF skip.present /\ skip.if = TRUE THEN FALSE
     ELSE IF include.present /\ include.if = FALSE THEN FALSE
     ELSE TRUE

\* doesFragmentConditionMatch(schema, fragment, type)
doesFragmentConditionMatch(fragment, type) ==
  LET typeConditionNode == fragment.typeCondition
      conditionalType == typeFromAST(typeConditionNode)
  IN IF typeConditionNode = NoTypeCondition THEN TRUE
     ELSE IF conditionalType = type THEN TRUE
     ELSE IF isAbstractType(conditionalType) THEN isSubType(conditionalType, type)
     ELSE FALSE

\* getFieldEntryKey(node)
getFieldEntryKey(node) == IF node.alias # "" THEN node.alias ELSE node.name

\* A slip in getDeferValues: the operation type is not checked
getDeferValues_NoInvariant(op, node) ==
  LET defer == getDirectiveValues("defer", node)
  IN IF ~defer.present \/ defer.if = FALSE
     THEN [throws |-> FALSE, defer |-> FALSE, label |-> NoLabel]
     ELSE [throws |-> FALSE, defer |-> TRUE, label |-> defer.label]
\* getDeferValues(operation, variableValues, node): `defer` FALSE is the bare
\* return (undefined), `throws` is the failed invariant(false, ...)
getDeferValues(op, node) ==
  LET defer == getDirectiveValues("defer", node)
  IN IF ~defer.present THEN [throws |-> FALSE, defer |-> FALSE, label |-> NoLabel]
     ELSE IF defer.if = FALSE THEN [throws |-> FALSE, defer |-> FALSE, label |-> NoLabel]
     ELSE IF op.operation = "subscription"
          THEN [throws |-> TRUE, defer |-> FALSE, label |-> NoLabel]
     ELSE [throws |-> FALSE, defer |-> TRUE, label |-> defer.label]

\* The ancestors of a target made under parentTarget
ancestorsOf(parentTarget) ==
  IF parentTarget = undefined THEN <<parentTarget>>
  ELSE <<parentTarget>> \o deferUsages[parentTarget].ancestors

\* target = { ...defer, ancestors }
DeferUsage(defer, ancestors) == [label |-> defer.label, ancestors |-> ancestors]

----------------------------------------------------------------------------
(* buildGroupedFieldSets *)

\* A slip in maskingTargetListOf: no target is masked out
maskingTargetListOf_All(targets) == targets
\* The targets of a key that no ancestor of theirs among the key's targets masks
maskingTargetListOf(targets) ==
  SelectSeq(targets, LAMBDA target :
    \/ target = undefined
    \/ \A i \in DOMAIN deferUsages[target].ancestors :
         ~SetHas(targets, deferUsages[target].ancestors[i]))

\* A slip in shouldInitiateDeferOf: the negation is left out
shouldInitiateDeferOf_Inverted(maskingTargetList, parentTargets) ==
  \E i \in DOMAIN maskingTargetList : SetHas(parentTargets, maskingTargetList[i])
\* maskingTargetList.some((deferUsage) => !parentTargets.has(deferUsage))
shouldInitiateDeferOf(maskingTargetList, parentTargets) ==
  \E i \in DOMAIN maskingTargetList : ~SetHas(parentTargets, maskingTargetList[i])

RECURSIVE getTargetSetDetailsLoop(_, _, _, _)
\* The loop of getTargetSetDetails over the entries of targetsByKey
getTargetSetDetailsLoop(entries, parentTargets, parentTargetKeys, targetSetDetailsMap) ==
  IF entries = <<>>
  THEN [parentTargetKeys |-> parentTargetKeys,
        targetSetDetailsMap |-> targetSetDetailsMap]
  ELSE
    LET responseKey == Head(entries).key
        targets == Head(entries).value
        maskingTargetList == maskingTargetListOf(targets)
        maskingTargets == NewSet(maskingTargetList)
        found == getBySet(targetSetDetailsMap, maskingTargets)
        \* a new Set object is a key no entry of the Map has: the entry is appended
        created == Append(targetSetDetailsMap,
                     [key |-> maskingTargets,
                      value |-> [keys |-> <<>>,
                                 shouldInitiateDefer |->
                                   shouldInitiateDeferOf(maskingTargetList, parentTargets)]])
        map == IF found = 0 THEN created ELSE targetSetDetailsMap
        at == IF found = 0 THEN Len(created) ELSE found
    IN IF isSameSet(maskingTargets, parentTargets)
       THEN getTargetSetDetailsLoop(Tail(entries), parentTargets,
              SetAdd(parentTargetKeys, responseKey), targetSetDetailsMap)
       ELSE getTargetSetDetailsLoop(Tail(entries), parentTargets, parentTargetKeys,
              [map EXCEPT ![at].value.keys = SetAdd(@, responseKey)])

getTargetSetDetails(tbk, parentTargets) ==
  getTargetSetDetailsLoop(tbk, parentTargets, <<>>, <<>>)

\* A slip in firstTargetOf: the last target of the set is taken
firstTargetOf_Last(maskingTargets) ==
  IF maskingTargets = <<>> THEN undefined ELSE maskingTargets[Len(maskingTargets)]
\* maskingTargets.values().next().value: undefined for an empty set
firstTargetOf(maskingTargets) ==
  IF maskingTargets = <<>> THEN undefined ELSE maskingTargets[1]

\* A slip in targetsOfGroup: only the masking targets give their nodes
targetsOfGroup_MaskingOnly(key, maskingTargets, tbk) == maskingTargets
\* The targets whose nodes of a key go into the key's field group
targetsOfGroup(key, maskingTargets, tbk) == MapGet(tbk, key)

RECURSIVE fieldsOfKey(_, _, _, _)
\* The inner loop of getOrderedGroupedFieldSet: the nodes of `key` under each of
\* `targets`, taken out of fieldsByTarget and paired with their target.
\* typeError: a read of a property of undefined.
fieldsOfKey(key, targets, fbt, fields) ==
  IF targets = <<>>
  THEN [fields |-> fields, fieldsByTarget |-> fbt, typeError |-> FALSE]
  ELSE
    LET target == Head(targets)
    IN IF ~MapHas(fbt, target) \/ ~MapHas(MapGet(fbt, target), key)
       THEN [fields |-> fields, fieldsByTarget |-> fbt, typeError |-> TRUE]
       ELSE
         LET fieldsForTarget == MapGet(fbt, target)
             nodes == MapGet(fieldsForTarget, key)
         IN fieldsOfKey(key, Tail(targets),
              MapSet(fbt, target, MapDelete(fieldsForTarget, key)),
              fields \o [i \in DOMAIN nodes |-> [node |-> nodes[i], target |-> target]])

RECURSIVE getOrderedGroupedFieldSetLoop(_, _, _, _, _, _)
\* The outer loop of getOrderedGroupedFieldSet over the keys of firstFields
getOrderedGroupedFieldSetLoop(firstKeys, keys, maskingTargets, tbk, fbt, groupedFieldSet) ==
  IF firstKeys = <<>>
  THEN [groupedFieldSet |-> groupedFieldSet, fieldsByTarget |-> fbt, typeError |-> FALSE]
  ELSE
    LET key == Head(firstKeys)
        fieldGroup == IF MapHas(groupedFieldSet, key) THEN MapGet(groupedFieldSet, key)
                      ELSE [fields |-> <<>>, targets |-> maskingTargets]
        got == fieldsOfKey(key, targetsOfGroup(key, maskingTargets, tbk), fbt,
                           fieldGroup.fields)
    IN IF ~SetHas(keys, key)
       THEN getOrderedGroupedFieldSetLoop(Tail(firstKeys), keys, maskingTargets, tbk,
              fbt, groupedFieldSet)
       ELSE IF got.typeError
       THEN [groupedFieldSet |-> groupedFieldSet, fieldsByTarget |-> got.fieldsByTarget,
             typeError |-> TRUE]
       ELSE getOrderedGroupedFieldSetLoop(Tail(firstKeys), keys, maskingTargets, tbk,
              got.fieldsByTarget,
              MapSet(groupedFieldSet, key, [fieldGroup EXCEPT !.fields = got.fields]))

getOrderedGroupedFieldSet(keys, maskingTargets, tbk, fbt) ==
  LET firstTarget == firstTargetOf(maskingTargets)
  IN IF ~MapHas(fbt, firstTarget)
     THEN [groupedFieldSet |-> <<>>, fieldsByTarget |-> fbt, typeError |-> TRUE]
     ELSE getOrderedGroupedFieldSetLoop(MapKeys(MapGet(fbt, firstTarget)), keys,
            maskingTargets, tbk, fbt, <<>>)

RECURSIVE newGroupedFieldSetDetailsLoop(_, _, _, _)
\* The loop of buildGroupedFieldSets over targetSetDetailsMap
newGroupedFieldSetDetailsLoop(entries, tbk, fbt, newGroupedFieldSetDetails) ==
  IF entries = <<>>
  THEN [newGroupedFieldSetDetails |-> newGroupedFieldSetDetails,
        fieldsByTarget |-> fbt, typeError |-> FALSE]
  ELSE
    LET maskingTargets == Head(entries).key
        targetSetDetails == Head(entries).value
        got == getOrderedGroupedFieldSet(targetSetDetails.keys, maskingTargets, tbk, fbt)
    IN IF got.typeError
       THEN [newGroupedFieldSetDetails |-> newGroupedFieldSetDetails,
             fieldsByTarget |-> got.fieldsByTarget, typeError |-> TRUE]
       ELSE newGroupedFieldSetDetailsLoop(Tail(entries), tbk, got.fieldsByTarget,
              Append(newGroupedFieldSetDetails,
                [key |-> maskingTargets,
                 value |-> [groupedFieldSet |-> got.groupedFieldSet,
                            shouldInitiateDefer |-> targetSetDetails.shouldInitiateDefer]]))

buildGroupedFieldSets(tbk, fbt, parentTargets) ==
  LET details == getTargetSetDetails(tbk, parentTargets)
      base == IF Len(details.parentTargetKeys) > 0
              THEN getOrderedGroupedFieldSet(details.parentTargetKeys, parentTargets,
                                             tbk, fbt)
              ELSE [groupedFieldSet |-> <<>>, fieldsByTarget |-> fbt, typeError |-> FALSE]
      new == newGroupedFieldSetDetailsLoop(details.targetSetDetailsMap, tbk,
                                           base.fieldsByTarget, <<>>)
  IN [groupedFieldSet |-> base.groupedFieldSet,
      newGroupedFieldSetDetails |-> new.newGroupedFieldSetDetails,
      fieldsByTarget |-> new.fieldsByTarget,
      typeError |-> base.typeError \/ new.typeError]

----------------------------------------------------------------------------
(* collectFieldsImpl, one selection at a time *)

NoResult == [groupedFieldSet |-> <<>>, newGroupedFieldSetDetails |-> <<>>,
             newDeferUsages |-> <<>>]
NoFieldGroup == [fields |-> <<>>, targets |-> <<>>]

\* An activation of collectFieldsImpl(context, selectionSet, parentTarget, newTarget)
Frame(selections, parentTarget, newTarget) ==
  [selections |-> selections, parentTarget |-> parentTarget, newTarget |-> newTarget]

Running == pc = "collectFieldsImpl" /\ stack # <<>>
\* The activation on top of the stack and the selection its loop is at
top == Head(stack)
selection == Head(top.selections)
\* The stack once the top activation's loop has moved past its selection
Advance == <<[top EXCEPT !.selections = Tail(@)]>> \o Tail(stack)

RECURSIVE Resume(_, _)
\* Where control goes next: an activation whose loop is over returns to its
\* caller, and when the last one of a collectFieldsImpl call has returned the
\* loop of collectSubfields calls it for the next field node that has a
\* selection set, with the target of that node's FieldDetails as parentTarget.
Resume(stk, fields) ==
  IF stk # <<>> /\ Head(stk).selections = <<>> THEN Resume(Tail(stk), fields)
  ELSE IF stk = <<>> /\ fields # <<>>
  THEN IF Head(fields).node.selectionSet # <<>>
       THEN Resume(<<Frame(Head(fields).node.selectionSet, Head(fields).target,
                           undefined)>>, Tail(fields))
       ELSE Resume(<<>>, Tail(fields))
  ELSE [stack |-> stk, remaining |-> fields]

\* A slip in targetOfField: the new target of a deferred fragment is ignored
targetOfField_ParentOnly(frame) == frame.parentTarget
\* const target = newTarget ?? parentTarget
targetOfField(frame) ==
  IF frame.newTarget # undefined THEN frame.newTarget ELSE frame.parentTarget

\* case Kind.FIELD
Field ==
  /\ Running
  /\ selection.kind = "Field"
  /\ IF ~shouldIncludeNode(selection)
     THEN UNCHANGED <<targetsByKey, fieldsByTarget>>
     ELSE
       LET key == getFieldEntryKey(selection)
           target == targetOfField(top)
           keyTargets == IF MapHas(targetsByKey, key) THEN MapGet(targetsByKey, key)
                         ELSE <<>>
           targetFields == IF MapHas(fieldsByTarget, target)
                           THEN MapGet(fieldsByTarget, target) ELSE <<>>
       IN /\ targetsByKey' = MapSet(targetsByKey, key, SetAdd(keyTargets, target))
          /\ fieldsByTarget' = MapSet(fieldsByTarget, target,
                                      AccumulatorMapAdd(targetFields, key, selection))
  /\ stack' = Resume(Advance, remaining).stack
  /\ remaining' = Resume(Advance, remaining).remaining
  /\ UNCHANGED <<operation, fragments, deferUsages, newDeferUsages,
                 visitedFragmentNames, call, pc, thrown, result>>
  /\ UNCHANGED cycleVars

\* The failed invariant(false, ...) of getDeferValues ends the call
Throw(error) ==
  /\ pc' = "threw"
  /\ thrown' = error
  /\ stack' = <<>>
  /\ remaining' = <<>>
  /\ UNCHANGED <<operation, fragments, deferUsages, fieldsByTarget, targetsByKey,
                 newDeferUsages, visitedFragmentNames, call, result>>

\* Skip the selection: `continue`
Continue ==
  /\ stack' = Resume(Advance, remaining).stack
  /\ remaining' = Resume(Advance, remaining).remaining
  /\ UNCHANGED <<operation, fragments, deferUsages, fieldsByTarget, targetsByKey,
                 newDeferUsages, visitedFragmentNames, call, pc, thrown, result>>

\* The recursive call collectFieldsImpl(context, selectionSet, parentTarget, target),
\* with target = newTarget when defer is undefined and a new DeferUsage otherwise
Recurse(selectionSet, defer, visitedNames) ==
  LET made == Len(deferUsages) + 1
      target == IF ~defer.defer THEN top.newTarget ELSE made
      pushed == <<Frame(selectionSet, top.parentTarget, target)>> \o Advance
  IN IF Len(stack) >= MaxCallStack
     THEN Throw("RangeError")
     ELSE
       /\ deferUsages' = IF ~defer.defer THEN deferUsages
                         ELSE Append(deferUsages,
                                     DeferUsage(defer, ancestorsOf(top.parentTarget)))
       /\ newDeferUsages' = IF ~defer.defer THEN newDeferUsages
                            ELSE Append(newDeferUsages, made)
       /\ visitedFragmentNames' = visitedNames
       /\ stack' = Resume(pushed, remaining).stack
       /\ remaining' = Resume(pushed, remaining).remaining
       /\ UNCHANGED <<operation, fragments, fieldsByTarget, targetsByKey, call, pc,
                      thrown, result>>

\* A slip in selectionSetOf: the enclosing selection set is passed on again
selectionSetOf_Enclosing(node) == top.selections
\* The selection set the recursive call is given: selection.selectionSet for an
\* inline fragment, fragment.selectionSet for a spread
selectionSetOf(node) ==
  IF node.kind = "InlineFragment" THEN node.selectionSet
  ELSE fragments[node.name].selectionSet
\* case Kind.INLINE_FRAGMENT
InlineFragment ==
  /\ Running
  /\ selection.kind = "InlineFragment"
  /\ IF ~shouldIncludeNode(selection)
        \/ ~doesFragmentConditionMatch(selection, runtimeType)
     THEN Continue
     ELSE
       LET defer == getDeferValues(operation, selection)
       IN IF defer.throws THEN Throw("invariant")
          ELSE Recurse(selectionSetOf(selection), defer, visitedFragmentNames)
  /\ UNCHANGED cycleVars

\* A slip in spreadIsDropped: visitedFragmentNames is not consulted
spreadIsDropped_NoVisited(fragName, defer) ==
  \/ fragName \notin DOMAIN fragments
  \/ ~doesFragmentConditionMatch(fragments[fragName], runtimeType)
\* Whether the spread is dropped after getDeferValues and before the recursion
spreadIsDropped(fragName, defer) ==
  \/ SetHas(visitedFragmentNames, fragName) /\ ~defer.defer
  \/ fragName \notin DOMAIN fragments
  \/ ~doesFragmentConditionMatch(fragments[fragName], runtimeType)

\* case Kind.FRAGMENT_SPREAD
FragmentSpread ==
  /\ Running
  /\ selection.kind = "FragmentSpread"
  /\ IF ~shouldIncludeNode(selection)
     THEN Continue
     ELSE
       LET fragName == selection.name
           defer == getDeferValues(operation, selection)
       IN IF defer.throws THEN Throw("invariant")
          ELSE IF spreadIsDropped(fragName, defer) THEN Continue
          ELSE Recurse(selectionSetOf(selection), defer,
                       IF ~defer.defer THEN SetAdd(visitedFragmentNames, fragName)
                       ELSE visitedFragmentNames)
  /\ UNCHANGED cycleVars

\* The parentTargets buildGroupedFieldSets is given by the running call
parentTargetsOf(c) ==
  IF c.fn = "collectFields" THEN NON_DEFERRED_TARGET_SET ELSE c.fieldGroup.targets

\* collectFieldsImpl has returned to collectFields or collectSubfields: the
\* grouped field sets are built and returned with newDeferUsages
Return ==
  /\ pc = "collectFieldsImpl"
  /\ stack = <<>>
  /\ \E built \in {buildGroupedFieldSets(targetsByKey, fieldsByTarget,
                                          parentTargetsOf(call))} :
       /\ fieldsByTarget' = built.fieldsByTarget
       /\ IF built.typeError
          THEN /\ pc' = "threw"
               /\ thrown' = "TypeError"
               /\ UNCHANGED result
          ELSE /\ pc' = "returned"
               /\ UNCHANGED thrown
               /\ result' = [groupedFieldSet |-> built.groupedFieldSet,
                             newGroupedFieldSetDetails |-> built.newGroupedFieldSetDetails,
                             newDeferUsages |-> newDeferUsages]
  /\ UNCHANGED <<operation, fragments, deferUsages, targetsByKey, newDeferUsages,
                 visitedFragmentNames, stack, call, remaining>>
  /\ UNCHANGED cycleVars

\* The field groups of a result: those of its base grouped field set and of
\* every new grouped field set
FieldGroupsOf(r) ==
  {r.groupedFieldSet[i].value : i \in DOMAIN r.groupedFieldSet}
  \cup UNION {{r.newGroupedFieldSetDetails[j].value.groupedFieldSet[i].value :
                 i \in DOMAIN r.newGroupedFieldSetDetails[j].value.groupedFieldSet} :
              j \in DOMAIN r.newGroupedFieldSetDetails}

\* collectSubfields(schema, fragments, variableValues, operation, returnType,
\* fieldGroup) for a field group of the result of the call before: a new context,
\* and collectFieldsImpl for the first field node that has a selection set
collectSubfields ==
  /\ pc = "returned"
  /\ \E fieldGroup \in FieldGroupsOf(result) :
       /\ \E i \in DOMAIN fieldGroup.fields : fieldGroup.fields[i].node.selectionSet # <<>>
       /\ call' = [fn |-> "collectSubfields", fieldGroup |-> fieldGroup]
       /\ stack' = Resume(<<>>, fieldGroup.fields).stack
       /\ remaining' = Resume(<<>>, fieldGroup.fields).remaining
  /\ fieldsByTarget' = <<>>
  /\ targetsByKey' = <<>>
  /\ newDeferUsages' = <<>>
  /\ visitedFragmentNames' = <<>>
  /\ pc' = "collectFieldsImpl"
  /\ result' = NoResult
  /\ UNCHANGED <<operation, fragments, deferUsages, thrown>>
  /\ UNCHANGED cycleVars

----------------------------------------------------------------------------
(* The documents the calls are run on *)

RECURSIVE Locate(_, _)
\* The selections with every node given its place in the document
Locate(selections, place) ==
  [i \in DOMAIN selections |->
     [selections[i] EXCEPT !.loc = place \o <<i>>,
                           !.selectionSet = Locate(@, place \o <<i>>)]]

\* Sequences over S of 1 to n members
SeqUpTo(S, n) == UNION {[1..m -> S] : m \in 1..n}

DeferOn == Directive(TRUE, NoLabel)
DeferLabelled == Directive(TRUE, "A")
DeferOff == Directive(FALSE, NoLabel)
SkipTrue == Directive(TRUE, NoLabel)
IncludeFalse == Directive(FALSE, NoLabel)

a == FieldNode("a", "", <<>>)
b == FieldNode("b", "", <<>>)

\* Selection sets of a field of the root type
SubSelections ==
  { <<InlineFragmentNode(NoTypeCondition, DeferOn, <<a>>)>>,
    <<b, FragmentSpreadNode("F", NoDirective)>> }

\* Selection sets of an inline fragment, and those of a deferred one only
InlineSelections ==
  { <<a, b>>,
    <<FragmentSpreadNode("F", NoDirective)>> }
DeferredSelections ==
  { <<FieldNode("a", "", <<b>>)>>,
    <<InlineFragmentNode(NoTypeCondition, DeferLabelled, <<b>>), b>> }

RootSelections ==
  {a, b, FieldNode("a", "c", <<>>)}
  \cup {FieldNode("a", "", sub) : sub \in SubSelections}
  \cup {FragmentSpreadNode(name, defer) :
          name \in {"F", "G"}, defer \in {NoDirective, DeferOn}}
  \cup {FragmentSpreadNode("Missing", DeferOn),
        FragmentSpreadNode("F", DeferOff),
        [FragmentSpreadNode("F", DeferOn) EXCEPT !.skip = SkipTrue],
        [b EXCEPT !.include = IncludeFalse]}
  \cup {InlineFragmentNode(NoTypeCondition, defer, sel) :
          defer \in {NoDirective, DeferOn}, sel \in InlineSelections}
  \cup {InlineFragmentNode(NoTypeCondition, DeferOn, sel) : sel \in DeferredSelections}
  \cup {InlineFragmentNode("Other", DeferOn, <<b>>),
        InlineFragmentNode("Union", NoDirective, <<b>>),
        InlineFragmentNode("Iface", DeferOff, <<b>>)}

\* Selection sets of the fragment definitions F and G
FSelections ==
  { <<b, a>>,
    <<FragmentSpreadNode("G", NoDirective)>>,
    <<a, FragmentSpreadNode("G", DeferOn)>>,
    <<InlineFragmentNode(NoTypeCondition, DeferOn, <<b>>)>> }
GSelections ==
  { <<b>>,
    <<FragmentSpreadNode("F", NoDirective)>>,
    <<FragmentSpreadNode("F", DeferOn)>> }

FragmentTables ==
  {[name \in {"F", "G"} |->
      IF name = "F" THEN FragmentDefinitionNode("Obj", Locate(f, <<"F">>))
      ELSE FragmentDefinitionNode("Iface", Locate(g, <<"G">>))] :
     f \in FSelections, g \in GSelections}
  \cup {[name \in {"F"} |-> FragmentDefinitionNode("Other", Locate(<<a>>, <<"F">>))]}

Operations ==
  {[operation |-> "query", selectionSet |-> Locate(sel, <<"">>)] :
     sel \in SeqUpTo(RootSelections, MaxRootSelections)}
  \cup {[operation |-> kind, selectionSet |-> Locate(<<sel>>, <<"">>)] :
          kind \in {"mutation", "subscription"}, sel \in RootSelections}

----------------------------------------------------------------------------
(* collectFields *)

\* The rule has nothing to do while fields are collected
CyclesIdle ==
  /\ definitions = <<>>
  /\ visited = 0
  /\ visitedFrags = {}
  /\ spreadPath = <<>>
  /\ spreadPathIndexByName = <<>>
  /\ errors = <<>>
  /\ explored = <<>>

\* collectFields(schema, fragments, variableValues, runtimeType, operation): the
\* new context, and collectFieldsImpl called for operation.selectionSet
collectFields ==
  /\ operation \in Operations
  /\ fragments \in FragmentTables
  /\ deferUsages = <<>>
  /\ fieldsByTarget = <<>>
  /\ targetsByKey = <<>>
  /\ newDeferUsages = <<>>
  /\ visitedFragmentNames = <<>>
  /\ stack = <<Frame(operation.selectionSet, undefined, undefined)>>
  /\ call = [fn |-> "collectFields", fieldGroup |-> NoFieldGroup]
  /\ remaining = <<>>
  /\ pc = "collectFieldsImpl"
  /\ thrown = ""
  /\ result = NoResult

Init == collectFields /\ CyclesIdle

Next == Field \/ InlineFragment \/ FragmentSpread \/ Return \/ collectSubfields

Spec == Init /\ [][Next]_vars

\* A call is synchronous code: once started it takes its steps until it ends.
\* When collectSubfields is called is for the caller to decide.
Step == Field \/ InlineFragment \/ FragmentSpread
\* The steps of Return, told by what they do to pc: Return is enabled whenever
\* collectFieldsImpl has returned to its caller, and no other step leaves there
Returning ==
  /\ pc = "collectFieldsImpl"
  /\ stack = <<>>
  /\ pc' \in {"returned", "threw"}
\* Termination is checked on the documents of fewer than MaxRootSelections
\* root selections
InitLive == Init /\ Len(operation.selectionSet) < MaxRootSelections
SpecLive == InitLive /\ [][Next]_vars /\ WF_vars(Step) /\ WF_pc(Returning)

----------------------------------------------------------------------------
(* NoFragmentCyclesRule *)

\* Spreads in the selection set of one fragment definition.
MaxSpreads == 2

CycleFragmentNames == {"F", "G", "H"}
\* The names a spread may have: a defined fragment, or one the document lacks
SpreadNames == CycleFragmentNames \cup {"Missing"}

\* context.getFragmentSpreads(fragment.selectionSet): the names of the spreads
getFragmentSpreads(fragment) == fragment.spreads
\* context.getFragment(name): the position of the definition, 0 for undefined
getFragment(name) ==
  IF \E i \in DOMAIN definitions : definitions[i].name = name
  THEN CHOOSE i \in DOMAIN definitions : definitions[i].name = name
  ELSE 0

\* spreadPathIndexByName[fragmentName] = index
IndexSet(indexByName, fragmentName, index) ==
  [name \in DOMAIN indexByName \cup {fragmentName} |->
     IF name = fragmentName THEN index ELSE indexByName[name]]
\* A slip in IndexUnset: the index is left in place when the fragment is done
IndexUnset_Kept(indexByName, fragmentName) == indexByName
\* spreadPathIndexByName[fragmentName] = undefined
IndexUnset(indexByName, fragmentName) ==
  [name \in DOMAIN indexByName \ {fragmentName} |-> indexByName[name]]

\* new GraphQLError(...): the spread that closes the cycle and the path it closes
CycleError(spreadName, cyclePath) == [spreadName |-> spreadName, nodes |-> cyclePath]

RECURSIVE detectCycleRecursive(_, _)
RECURSIVE detectCycleSpreads(_, _)

\* detectCycleRecursive(fragment) on the rule's state
\* st = [visitedFrags, spreadPath, spreadPathIndexByName, errors, explored]
detectCycleRecursive(fragment, st) ==
  IF fragment.name \in st.visitedFrags THEN st
  ELSE
    LET fragmentName == fragment.name
        entered == [st EXCEPT !.visitedFrags = @ \cup {fragmentName},
                              !.explored = Append(@, fragmentName)]
        spreadNodes == getFragmentSpreads(fragment)
        indexed == [entered EXCEPT !.spreadPathIndexByName =
                      IndexSet(@, fragmentName, Len(entered.spreadPath))]
        looped == detectCycleSpreads(spreadNodes, indexed)
    IN IF Len(spreadNodes) = 0 THEN entered
       ELSE [looped EXCEPT !.spreadPathIndexByName = IndexUnset(@, fragmentName)]

\* The loop of detectCycleRecursive over spreadNodes
detectCycleSpreads(spreadNodes, st) ==
  IF spreadNodes = <<>> THEN st
  ELSE
    LET spreadName == Head(spreadNodes)
        pushed == [st EXCEPT !.spreadPath = Append(@, spreadName)]
        spreadFragment == getFragment(spreadName)
        after ==
          IF spreadName \notin DOMAIN st.spreadPathIndexByName
          THEN IF spreadFragment # 0
               THEN detectCycleRecursive(definitions[spreadFragment], pushed)
               ELSE pushed
          ELSE LET cycleIndex == st.spreadPathIndexByName[spreadName]
                   cyclePath == SubSeq(pushed.spreadPath, cycleIndex + 1,
                                       Len(pushed.spreadPath))
               IN [pushed EXCEPT !.errors = Append(@, CycleError(spreadName, cyclePath))]
    IN detectCycleSpreads(Tail(spreadNodes),
                          [after EXCEPT !.spreadPath = SubSeq(@, 1, Len(@) - 1)])

\* Nothing is collected while the rule runs
CollectIdle ==
  /\ operation = [operation |-> "query", selectionSet |-> <<>>]
  /\ fragments = <<>>
  /\ deferUsages = <<>>
  /\ fieldsByTarget = <<>>
  /\ targetsByKey = <<>>
  /\ newDeferUsages = <<>>
  /\ visitedFragmentNames = <<>>
  /\ stack = <<>>
  /\ call = [fn |-> "", fieldGroup |-> NoFieldGroup]
  /\ remaining = <<>>
  /\ pc = ""
  /\ thrown = ""
  /\ result = NoResult

\* Sequences over S of at most n members, none of them twice
DistinctSeqUpTo(S, n) ==
  {s \in UNION {[1..m -> S] : m \in 0..n} : \A i, j \in DOMAIN s : i # j => s[i] # s[j]}

\* NoFragmentCyclesRule(context): the rule's state as the visitor gets it, for a
\* document that defines the fragments of CycleFragmentNames in some order
NoFragmentCyclesRule ==
  /\ \E spreads \in [CycleFragmentNames -> DistinctSeqUpTo(SpreadNames, MaxSpreads)] :
       definitions \in
         {order \in [1..Cardinality(CycleFragmentNames) ->
                       {[name |-> name, spreads |-> spreads[name]] :
                          name \in CycleFragmentNames}] :
            \A i, j \in DOMAIN order : i # j => order[i].name # order[j].name}
  /\ visited = 0
  /\ visitedFrags = {}
  /\ spreadPath = <<>>
  /\ spreadPathIndexByName = <<>>
  /\ errors = <<>>
  /\ explored = <<>>

\* FragmentDefinition(node): the visitor enters the next fragment definition
FragmentDefinition ==
  /\ visited < Len(definitions)
  /\ LET node == definitions[visited + 1]
         st == detectCycleRecursive(node,
                 [visitedFrags |-> visitedFrags, spreadPath |-> spreadPath,
                  spreadPathIndexByName |-> spreadPathIndexByName,
                  errors |-> errors, explored |-> explored])
     IN /\ visitedFrags' = st.visitedFrags
        /\ spreadPath' = st.spreadPath
        /\ spreadPathIndexByName' = st.spreadPathIndexByName
        /\ errors' = st.errors
        /\ explored' = st.explored
  /\ visited' = visited + 1
  /\ UNCHANGED definitions
  /\ UNCHANGED collectVars

InitCycles == NoFragmentCyclesRule /\ CollectIdle

NextCycles == FragmentDefinition

SpecCycles == InitCycles /\ [][NextCycles]_vars
----------------------------------------------------------------------------
(* What a document selects, read off the document alone *)

\* An active @defer: the directive is there and its `if` is not false
ActiveDefer(node) == node.defer.present /\ node.defer.if

\* Whether a fragment (inline, or spread by name) is entered for the runtime type
Applies(node) ==
  /\ shouldIncludeNode(node)
  /\ IF node.kind = "InlineFragment" THEN doesFragmentConditionMatch(node, runtimeType)
     ELSE /\ node.name \in DOMAIN fragments
          /\ doesFragmentConditionMatch(fragments[node.name], runtimeType)
\* The selection set a fragment node stands for
BodyOf(node) ==
  IF node.kind = "InlineFragment" THEN node.selectionSet
  ELSE fragments[node.name].selectionSet

RECURSIVE Expansion(_, _, _)
\* Every included field occurrence of the selections, in document order, with
\* every fragment that applies expanded in place (a fragment is not expanded
\* inside itself).  `deferred`: the occurrence lies inside an active @defer.
Expansion(selections, deferred, path) ==
  IF selections = <<>> THEN <<>>
  ELSE
    LET node == Head(selections)
        here ==
          IF node.kind = "Field"
          THEN IF shouldIncludeNode(node)
               THEN <<[node |-> node, deferred |-> deferred]>> ELSE <<>>
          ELSE IF ~Applies(node) \/ (node.kind = "FragmentSpread" /\ node.name \in path)
          THEN <<>>
          ELSE Expansion(BodyOf(node), deferred \/ ActiveDefer(node),
                         IF node.kind = "FragmentSpread" THEN path \cup {node.name}
                         ELSE path)
    IN here \o Expansion(Tail(selections), deferred, path)

RECURSIVE AppliedFragments(_, _)
\* The fragment nodes (inline fragments and spreads) that apply and are reached
\* through fragments that apply
AppliedFragments(selections, path) ==
  UNION {LET node == selections[i]
         IN IF node.kind = "Field" \/ ~Applies(node)
               \/ (node.kind = "FragmentSpread" /\ node.name \in path)
            THEN {}
            ELSE {node} \cup AppliedFragments(BodyOf(node),
                               IF node.kind = "FragmentSpread"
                               THEN path \cup {node.name} ELSE path) :
         i \in DOMAIN selections}

\* The selection sets the running call collects, in the order it visits them
CallSelectionSets ==
  IF call.fn = "collectFields" THEN <<operation.selectionSet>>
  ELSE LET withSet == SelectSeq(call.fieldGroup.fields,
                                LAMBDA fd : fd.node.selectionSet # <<>>)
       IN [i \in DOMAIN withSet |-> withSet[i].node.selectionSet]

RECURSIVE Flatten(_)
Flatten(seqs) == IF seqs = <<>> THEN <<>> ELSE Head(seqs) \o Flatten(Tail(seqs))

\* The field occurrences of the running call
CallExpansion ==
  Flatten([i \in DOMAIN CallSelectionSets |->
             Expansion(CallSelectionSets[i], FALSE, {})])
\* The applied fragments of the running call that carry an active @defer
CallDefers ==
  {node \in UNION {AppliedFragments(CallSelectionSets[i], {}) :
                     i \in DOMAIN CallSelectionSets} : ActiveDefer(node)}

KeysWhere(expansion, deferred) ==
  {getFieldEntryKey(expansion[i].node) :
     i \in {j \in DOMAIN expansion : expansion[j].deferred = deferred}}
\* Keys with an occurrence outside every @defer, and keys with one inside a @defer
BaseKeys == KeysWhere(CallExpansion, FALSE)
DeferredKeys == KeysWhere(CallExpansion, TRUE)

KeysOf(groupedFieldSet) == {groupedFieldSet[i].key : i \in DOMAIN groupedFieldSet}
\* The entries of newGroupedFieldSetDetails that list a key
EntriesWith(key) ==
  {j \in DOMAIN result.newGroupedFieldSetDetails :
     key \in KeysOf(result.newGroupedFieldSetDetails[j].value.groupedFieldSet)}

Returned(fn) == pc = "returned" /\ call.fn = fn

----------------------------------------------------------------------------
(* Claims *)

\* C1 (as claimed): when collectFields returns, a response key that has an
\* included occurrence outside every @defer and is also selected inside a
\* deferred fragment is in the base groupedFieldSet and in no grouped field set
\* of newGroupedFieldSetDetails, in every order of the selections.
C1_MaskingByAncestor ==
  Returned("collectFields") =>
    \A key \in BaseKeys \cap DeferredKeys :
      /\ key \in KeysOf(result.groupedFieldSet)
      /\ EntriesWith(key) = {}

\* C2: when collectFields returns on a query or mutation, a response key whose
\* every included occurrence lies inside an active @defer is absent from the
\* base groupedFieldSet and listed by exactly one entry of
\* newGroupedFieldSetDetails, whose shouldInitiateDefer is true.
C2_DeferCreatesBoundary ==
  (Returned("collectFields") /\ operation.operation \in {"query", "mutation"}) =>
    \A key \in DeferredKeys \ BaseKeys :
      /\ key \notin KeysOf(result.groupedFieldSet)
      /\ Cardinality(EntriesWith(key)) = 1
      /\ \A j \in EntriesWith(key) :
           result.newGroupedFieldSetDetails[j].value.shouldInitiateDefer = TRUE

\* C2 witness: collectFields has returned on a query with a key selected only
\* inside @defer, and an entry of newGroupedFieldSetDetails lists it.
C2_Witness ==
  /\ Returned("collectFields")
  /\ operation.operation = "query"
  /\ \E key \in DeferredKeys \ BaseKeys : EntriesWith(key) # {}

RECURSIVE FirstOccurrences(_)
\* The list without the later occurrences of its members
FirstOccurrences(list) ==
  IF list = <<>> THEN <<>>
  ELSE <<Head(list)>> \o FirstOccurrences(SelectSeq(Tail(list), LAMBDA x : x # Head(list)))

\* No @defer takes part in the running call
NoDeferInCall ==
  /\ CallDefers = {}
  /\ \A i \in DOMAIN call.fieldGroup.fields : call.fieldGroup.fields[i].target = undefined
\* The field nodes of the call, each at its first occurrence, and their keys
ExpandedNodes == [i \in DOMAIN CallExpansion |-> CallExpansion[i].node]
ExpectedNodes == FirstOccurrences(ExpandedNodes)
ExpectedKeys ==
  FirstOccurrences([i \in DOMAIN ExpectedNodes |-> getFieldEntryKey(ExpectedNodes[i])])
ExpectedFields(key) ==
  LET nodes == SelectSeq(ExpectedNodes, LAMBDA node : getFieldEntryKey(node) = key)
  IN [i \in DOMAIN nodes |-> [node |-> nodes[i], target |-> undefined]]

\* C3: when a call in which no @defer takes part returns, the base
\* groupedFieldSet lists the field nodes of the fully expanded selection set
\* with every node kept at its first occurrence only: a fragment spread more
\* than once contributes each of its field nodes once, at the place of its
\* first spread; and there is no new grouped field set.
C3_FragmentDedup ==
  (pc = "returned" /\ NoDeferInCall) =>
    /\ MapKeys(result.groupedFieldSet) = ExpectedKeys
    /\ \A i \in DOMAIN result.groupedFieldSet :
         result.groupedFieldSet[i].value.fields =
           ExpectedFields(result.groupedFieldSet[i].key)
    /\ result.newGroupedFieldSetDetails = <<>>

\* C3 witness: a call without @defer has returned fields of a fragment that the
\* selection set reaches more than once.
C3_Witness ==
  /\ pc = "returned"
  /\ NoDeferInCall
  /\ result.groupedFieldSet # <<>>
  /\ \E i \in DOMAIN ExpandedNodes : \E j \in DOMAIN ExpandedNodes :
       /\ i < j
       /\ ExpandedNodes[i] = ExpandedNodes[j]
       /\ Head(ExpandedNodes[i].loc) \in DOMAIN fragments

\* A selection the collector leaves out: excluded by @skip or @include, an
\* inline fragment or a fragment whose type condition does not match, or a
\* spread of a fragment the fragments table does not have
Omitted(node) ==
  \/ ~shouldIncludeNode(node)
  \/ node.kind = "InlineFragment" /\ ~doesFragmentConditionMatch(node, runtimeType)
  \/ node.kind = "FragmentSpread" /\ node.name \notin DOMAIN fragments
  \/ /\ node.kind = "FragmentSpread"
     /\ node.name \in DOMAIN fragments
     /\ ~doesFragmentConditionMatch(fragments[node.name], runtimeType)

\* C4 (as claimed): in any call, for any operation kind, the step that visits a
\* selection the collector leaves out never ends the call with an error,
\* whatever other directives the selection carries.
C4_SoftFailuresNeverRaise ==
  [][(Running /\ Omitted(selection)) => pc' # "threw"]_vars

\* C5: on a subscription, the step that visits an included, type-matching
\* fragment (inline or spread) with a @defer whose `if` is not false ends the
\* call with the failed invariant and no result; with a @defer whose `if` is
\* false the call goes on and no DeferUsage is made; and a call that threw has
\* returned nothing.
C5_DeferOnSubscriptionFatal ==
  [][/\ (/\ Running
         /\ operation.operation = "subscription"
         /\ selection.kind # "Field"
         /\ Applies(selection)
         /\ selection.defer.present)
        => IF selection.defer.if
           THEN pc' = "threw" /\ thrown' = "invariant" /\ result' = NoResult
           ELSE /\ pc' # "threw"
                /\ deferUsages' = deferUsages
                /\ newDeferUsages' = newDeferUsages
     /\ pc' = "threw" => result' = NoResult]_vars

\* C5 witness: a subscription whose selection set reaches an applied fragment
\* with an active @defer has ended with the failed invariant.
C5_Witness ==
  /\ pc = "threw"
  /\ thrown = "invariant"
  /\ operation.operation = "subscription"
  /\ CallDefers # {}

\* The grouped field sets of a result: the base one and every new one
GroupedFieldSetsOf(r) ==
  {r.groupedFieldSet}
  \cup {r.newGroupedFieldSetDetails[j].value.groupedFieldSet :
          j \in DOMAIN r.newGroupedFieldSetDetails}
\* The members of `order` that are keys of the grouped field set, in that order
Restricted(order, groupedFieldSet) ==
  SelectSeq(order, LAMBDA key : key \in KeysOf(groupedFieldSet))

\* C8 (as claimed): in every grouped field set a call returns, the keys are in
\* the order in which the traversal first encountered them (the order of the
\* keys of targetsByKey).
C8_KeyOrderOfFirstEncounter ==
  pc = "returned" =>
    \A groupedFieldSet \in GroupedFieldSetsOf(result) :
      MapKeys(groupedFieldSet) = Restricted(MapKeys(targetsByKey), groupedFieldSet)

\* C8 (amended): in every grouped field set a call returns, the keys are in
\* the order in which they were first collected under the first target of the
\* set's masking target set (the order of the keys fieldsByTarget holds for
\* that target when collectFieldsImpl has returned).
C8_KeyOrderOfFirstTarget ==
  [][(pc = "collectFieldsImpl" /\ pc' = "returned") =>
       \A groupedFieldSet \in GroupedFieldSetsOf(result') :
         groupedFieldSet # <<>> =>
           MapKeys(groupedFieldSet) =
             Restricted(MapKeys(MapGet(fieldsByTarget,
                                       groupedFieldSet[1].value.targets[1])),
                        groupedFieldSet)]_vars

\* C8 witness: a returned grouped field set of two keys or more whose masking
\* target set has more than one target.
C8_Witness ==
  /\ pc = "returned"
  /\ \E groupedFieldSet \in GroupedFieldSetsOf(result) :
       /\ Len(groupedFieldSet) >= 2
       /\ Len(groupedFieldSet[1].value.targets) >= 2

\* The targets that enclose the fragment the top activation is visiting: the
\* target of every deferred fragment the activations on the stack are inside
\* of, the call's parentTarget and the ancestors of that target
EnclosingTargets ==
  ({stack[i].newTarget : i \in DOMAIN stack} \ {undefined})
  \cup {top.parentTarget}
  \cup (IF top.parentTarget = undefined THEN {}
        ELSE Members(deferUsages[top.parentTarget].ancestors))

\* C9 (as claimed): the ancestors of every DeferUsage made during a call are
\* exactly the targets that enclose the deferred fragment it is made for.
C9_AncestorsAreEnclosing ==
  [][Len(deferUsages') > Len(deferUsages) =>
       Members(deferUsages'[Len(deferUsages')].ancestors) = EnclosingTargets]_vars

\* C10 (as claimed): every FieldDetails of a returned field group has a target
\* that is a member of the group's targets.
C10_FieldsWithinMaskingSet ==
  pc = "returned" =>
    \A group \in FieldGroupsOf(result) :
      \A i \in DOMAIN group.fields : SetHas(group.targets, group.fields[i].target)

\* Whether a member of `targets` is among the ancestors of the target
MaskedBy(target, targets) ==
  /\ target # undefined
  /\ \E i \in DOMAIN deferUsages[target].ancestors :
       SetHas(targets, deferUsages[target].ancestors[i])

\* C10 (amended): every FieldDetails of a returned field group has a target that
\* is a member of the group's targets or has a member of them among its
\* ancestors, and the targets of the group's FieldDetails are all the targets
\* the key was collected under: the nodes collected under a target that an
\* ancestor masks out are part of the field list.
C10_FieldsOfEveryTarget ==
  pc = "returned" =>
    \A groupedFieldSet \in GroupedFieldSetsOf(result) :
      \A k \in DOMAIN groupedFieldSet :
        LET group == groupedFieldSet[k].value
            fieldTargets == {group.fields[i].target : i \in DOMAIN group.fields}
        IN /\ \A target \in fieldTargets :
                SetHas(group.targets, target) \/ MaskedBy(target, group.targets)
           /\ fieldTargets = Members(MapGet(targetsByKey, groupedFieldSet[k].key))

\* C10 witness: a returned field group lists a node collected under a target
\* that is not one of the group's targets.
C10_Witness ==
  /\ pc = "returned"
  /\ \E group \in FieldGroupsOf(result) :
       \E i \in DOMAIN group.fields : ~SetHas(group.targets, group.fields[i].target)

RECURSIVE TransitiveClosure(_)
\* The pairs joined by a path of one edge or more
TransitiveClosure(edges) ==
  LET joined == edges \cup {<<pq[1][1], pq[2][2]>> :
                              pq \in {x \in edges \X edges : x[1][2] = x[2][1]}}
  IN IF joined = edges THEN edges ELSE TransitiveClosure(joined)
HasCycle(edges) == \E e \in TransitiveClosure(edges) : e[1] = e[2]

\* The graph of the spreads between the fragments the document defines
DefinedNames == {definitions[i].name : i \in DOMAIN definitions}
SpreadEdges ==
  {e \in UNION {{<<definitions[i].name, definitions[i].spreads[k]>> :
                   k \in DOMAIN definitions[i].spreads} : i \in DOMAIN definitions} :
     e[2] \in DefinedNames}

\* C6: the visitor explores no fragment twice, and once it has entered every
\* fragment definition of the document an error has been reported if and only if
\* the graph of the spreads between defined fragments has a cycle (a fragment
\* that spreads itself is one), in whatever order the definitions come.
C6_CyclesReported ==
  /\ \A i, j \in DOMAIN explored : i # j => explored[i] # explored[j]
  /\ (definitions # <<>> /\ visited = Len(definitions)) =>
       ((errors # <<>>) <=> HasCycle(SpreadEdges))

\* C6 witness: every definition is entered, the graph has a cycle through two
\* fragments or more, a spread of an undefined fragment was met, and an error
\* is reported.
C6_Witness ==
  /\ definitions # <<>>
  /\ visited = Len(definitions)
  /\ errors # <<>>
  /\ \E e \in TransitiveClosure(SpreadEdges) :
       e[1] # e[2] /\ <<e[2], e[1]>> \in TransitiveClosure(SpreadEdges)
  /\ \E i \in DOMAIN definitions : \E k \in DOMAIN definitions[i].spreads :
       definitions[i].spreads[k] \notin DefinedNames

RECURSIVE SpreadsIn(_)
\* The names of the fragment spreads anywhere in the selections
SpreadsIn(selections) ==
  UNION {IF selections[i].kind = "FragmentSpread" THEN {selections[i].name}
         ELSE SpreadsIn(selections[i].selectionSet) : i \in DOMAIN selections}
\* The graph of the spreads between the fragments of the fragments table
FragmentEdges ==
  {e \in UNION {{<<name, spread>> : spread \in SpreadsIn(fragments[name].selectionSet)} :
                  name \in DOMAIN fragments} :
     e[2] \in DOMAIN fragments}
Acyclic == ~HasCycle(FragmentEdges)

CollectedKeys == {targetsByKey[i].key : i \in DOMAIN targetsByKey}
TargetsOfKey(key) == Members(MapGet(targetsByKey, key))
MaskingTargetsOfKey(key) ==
  {target \in TargetsOfKey(key) :
     \/ target = undefined
     \/ Members(deferUsages[target].ancestors) \cap TargetsOfKey(key) = {}}
ParentTargets == Members(parentTargetsOf(call))

\* C11: when a call returns, every collected response key is in exactly one
\* grouped field set of the result: in the base groupedFieldSet if and only if
\* its masking target set has the members of the caller's parent target set,
\* and otherwise in exactly one entry of newGroupedFieldSetDetails, whose key
\* has the members of the key's masking target set; the result has no other
\* key, and no two entries of newGroupedFieldSetDetails have the same members.
C11_Partition ==
  pc = "returned" =>
    /\ \A key \in CollectedKeys :
         IF MaskingTargetsOfKey(key) = ParentTargets
         THEN /\ key \in KeysOf(result.groupedFieldSet)
              /\ EntriesWith(key) = {}
         ELSE /\ key \notin KeysOf(result.groupedFieldSet)
              /\ Cardinality(EntriesWith(key)) = 1
              /\ \A j \in EntriesWith(key) :
                   Members(result.newGroupedFieldSetDetails[j].key) =
                     MaskingTargetsOfKey(key)
    /\ \A groupedFieldSet \in GroupedFieldSetsOf(result) :
         /\ KeysOf(groupedFieldSet) \subseteq CollectedKeys
         /\ Cardinality(KeysOf(groupedFieldSet)) = Len(groupedFieldSet)
    /\ \A j \in DOMAIN result.newGroupedFieldSetDetails :
         \A k \in DOMAIN result.newGroupedFieldSetDetails :
           j # k => Members(result.newGroupedFieldSetDetails[j].key) #
                      Members(result.newGroupedFieldSetDetails[k].key)

\* C11 witness: a call has returned a key in the base groupedFieldSet and an
\* entry of newGroupedFieldSetDetails with two keys of the same masking target
\* set.
C11_Witness ==
  /\ pc = "returned"
  /\ result.groupedFieldSet # <<>>
  /\ \E j \in DOMAIN result.newGroupedFieldSetDetails :
       Len(result.newGroupedFieldSetDetails[j].value.groupedFieldSet) >= 2

\* C12: when a call returns, shouldInitiateDefer of every entry of
\* newGroupedFieldSetDetails is true if and only if some target of the entry's
\* masking target set is not one of the caller's parent targets ({undefined}
\* for collectFields, fieldGroup.targets for collectSubfields), and the base
\* target is not in the entry's masking target set.
C12_ShouldInitiateDefer ==
  pc = "returned" =>
    \A j \in DOMAIN result.newGroupedFieldSetDetails :
      LET maskingTargets == Members(result.newGroupedFieldSetDetails[j].key)
      IN /\ result.newGroupedFieldSetDetails[j].value.shouldInitiateDefer
              = (maskingTargets \ ParentTargets # {})
         /\ undefined \notin maskingTargets

\* C12 witness: collectSubfields has returned, for a field group of two parent
\* targets, an entry whose shouldInitiateDefer is false.
C12_Witness ==
  /\ Returned("collectSubfields")
  /\ Cardinality(ParentTargets) >= 2
  /\ \E j \in DOMAIN result.newGroupedFieldSetDetails :
       ~result.newGroupedFieldSetDetails[j].value.shouldInitiateDefer

====
